---- MODULE Spec2Model ----
(***************************************************************************)
(* A model of nwpc_workflow_log_processor/spark/cli/node_tree.py: the two  *)
(* click commands (database, file), the two pipeline functions and the     *)
(* result sink.  One run of one command is a sequential process; pc is its *)
(* position.  Python strings that are parsed (dates) are sequences of      *)
(* one-character strings; strings that are only compared are TLA+ strings. *)
(* Collaborators outside this file (load_config, create_spark_session, the *)
(* record loaders, calculate_node_tree, open) succeed or raise, chosen     *)
(* nondeterministically where they are called; SparkSession.stop,          *)
(* pre_order_travel, to_dict and json.dump are taken to return normally.   *)
(***************************************************************************)
EXTENDS Integers, Sequences, FiniteSets, TLC

(* ------------------------------ bounds -------------------------------- *)
\* longest source / sink list of a task file
MaxEntries == 2
\* largest bunch map the calculator returns
MaxBunches == 2

(* --------------------------- Python values ---------------------------- *)
None == [kind |-> "None"]
Str(s) == [kind |-> "str", s |-> s]
DateTime(y, m, d) ==
    [kind |-> "datetime", year |-> y, month |-> m, day |-> d,
     hour |-> 0, minute |-> 0, second |-> 0]
Date(y, m, d) == [year |-> y, month |-> m, day |-> d]

\* `if x:` on a value that is None or a str
Truthy(v) == v.kind # "None" /\ (v.kind = "str" => v.s # <<>>)

\* dict.get(key, default) on a dict of str values
Get(d, key, default) == IF key \in DOMAIN d THEN Str(d[key]) ELSE default

\* d[key] = value on a dict
DictSet(d, key, value) ==
    [k \in DOMAIN d \cup {key} |-> IF k = key THEN value ELSE d[k]]

(* --------------------- strptime(..., "%Y-%m-%d") ---------------------- *)
DigitChars == <<"0", "1", "2", "3", "4", "5", "6", "7", "8", "9">>
IsDigit(c) == \E i \in DOMAIN DigitChars : DigitChars[i] = c
DigitVal(c) == (CHOOSE i \in DOMAIN DigitChars : DigitChars[i] = c) - 1
IsNonZeroDigit(c) == IsDigit(c) /\ c # "0"

\* %m is the regex 1[0-2]|0[1-9]|[1-9]
MonthToken(t) ==
    \/ Len(t) = 2 /\ t[1] = "1" /\ t[2] \in {"0", "1", "2"}
    \/ Len(t) = 2 /\ t[1] = "0" /\ IsNonZeroDigit(t[2])
    \/ Len(t) = 1 /\ IsNonZeroDigit(t[1])

\* %d is the regex 3[01]|[12]\d|0[1-9]|[1-9]| [1-9]
DayToken(t) ==
    \/ Len(t) = 2 /\ t[1] = "3" /\ t[2] \in {"0", "1"}
    \/ Len(t) = 2 /\ t[1] \in {"1", "2"} /\ IsDigit(t[2])
    \/ Len(t) = 2 /\ t[1] \in {"0", " "} /\ IsNonZeroDigit(t[2])
    \/ Len(t) = 1 /\ IsNonZeroDigit(t[1])

TokenVal(t) ==
    IF Len(t) = 1 THEN DigitVal(t[1])
    ELSE IF t[1] = " " THEN DigitVal(t[2])
    ELSE 10 * DigitVal(t[1]) + DigitVal(t[2])

YearVal(s) ==
    1000 * DigitVal(s[1]) + 100 * DigitVal(s[2]) + 10 * DigitVal(s[3]) + DigitVal(s[4])

IsLeap(y) == (y % 4 = 0 /\ y % 100 # 0) \/ y % 400 = 0
DaysInMonth(y, m) ==
    IF m = 2 THEN (IF IsLeap(y) THEN 29 ELSE 28)
    ELSE IF m \in {4, 6, 9, 11} THEN 30 ELSE 31

\* the <<month length, day length>> under which the whole string matches
\* \d\d\d\d-%m-%d with nothing left over (at most one pair does)
FormatMatches(s) ==
    {md \in {1, 2} \X {1, 2} :
        /\ Len(s) = 6 + md[1] + md[2]
        /\ \A i \in 1..4 : IsDigit(s[i])
        /\ s[5] = "-"
        /\ MonthToken(SubSeq(s, 6, 5 + md[1]))
        /\ s[6 + md[1]] = "-"
        /\ DayToken(SubSeq(s, 7 + md[1], 6 + md[1] + md[2]))}

\* datetime.datetime.strptime(s, "%Y-%m-%d"): the datetime at midnight, or
\* ValueError (no match, unconverted data, year 0, day out of range)
Strptime(s) ==
    IF FormatMatches(s) = {} THEN [ok |-> FALSE, value |-> None]
    ELSE LET md == CHOOSE x \in FormatMatches(s) : TRUE
             y == YearVal(s)
             m == TokenVal(SubSeq(s, 6, 5 + md[1]))
             d == TokenVal(SubSeq(s, 7 + md[1], 6 + md[1] + md[2]))
         IN IF y >= 1 /\ d <= DaysInMonth(y, m)
            THEN [ok |-> TRUE, value |-> DateTime(y, m, d)]
            ELSE [ok |-> FALSE, value |-> None]

(* ----------------------- strftime("%Y-%m-%d") ------------------------- *)
Pad2(n) == <<DigitChars[(n \div 10) + 1], DigitChars[(n % 10) + 1]>>
\* a variant of Strftime in the format %Y-%-m-%-d: no zero padding
Unpadded(n) == IF n < 10 THEN <<DigitChars[n + 1]>> ELSE Pad2(n)
Strftime_Unpadded(date) ==
    Pad2(date.year \div 100) \o Pad2(date.year % 100) \o <<"-">>
        \o Unpadded(date.month) \o <<"-">> \o Unpadded(date.day)

Strftime(date) ==
    Pad2(date.year \div 100) \o Pad2(date.year % 100) \o <<"-">>
        \o Pad2(date.month) \o <<"-">> \o Pad2(date.day)

\* bunch.to_dict(): the plain dictionary of a bunch
ToDict(bunch) == [dict_of |-> bunch]

(* ------------------------------ inputs -------------------------------- *)
Chars_2020_01_01 == <<"2", "0", "2", "0", "-", "0", "1", "-", "0", "1">>
Chars_2020_01_02 == <<"2", "0", "2", "0", "-", "0", "1", "-", "0", "2">>
Chars_2020_1_2 == <<"2", "0", "2", "0", "-", "1", "-", "2">>
Chars_2020_02_30 == <<"2", "0", "2", "0", "-", "0", "2", "-", "3", "0">>
Chars_20200101 == <<"2", "0", "2", "0", "0", "1", "0", "1">>

\* --begin-date / task.begin_date as typed by the user (no key: absent)
BeginDateStrings ==
    {<<>>, Chars_2020_01_01, Chars_2020_1_2, Chars_2020_02_30, Chars_20200101}
EndDateStrings == {<<>>, Chars_2020_01_02, Chars_2020_02_30}

\* the command line of `database`; click.Choice admits only print and file
DatabaseArgs ==
    {[owner |-> Str("wangdp"), repo |-> Str("grapes"), repo_type |-> Str("ecflow"),
      begin_date |-> b, end_date |-> e, config_file |-> Str("config.yaml"),
      output_type |-> Str(t), output_file |-> o] :
        b \in {None} \cup {Str(x) : x \in BeginDateStrings},
        e \in {None} \cup {Str(x) : x \in EndDateStrings},
        t \in {"print", "file"},
        o \in {None, Str(""), Str("out.json")}}

FileArgs == {[config_file |-> Str("config.yaml"), task_file |-> Str("task.yaml")]}

\* the `task` section of a task file: a dict, begin_date / end_date optional
TaskSections ==
    {[owner |-> "wangdp", repo |-> "grapes"]}
    \cup {[owner |-> "wangdp", repo |-> "grapes", begin_date |-> b] :
            b \in BeginDateStrings}
    \cup {[owner |-> "wangdp", repo |-> "grapes", end_date |-> e] :
            e \in EndDateStrings}
    \cup {[owner |-> "wangdp", repo |-> "grapes", begin_date |-> b, end_date |-> e] :
            b \in BeginDateStrings, e \in EndDateStrings}

\* source descriptors: the first of a list, and those after it
FirstSources == {[file_path |-> "a.log"], [type |-> "file"]}
LaterSources == {[file_path |-> "b.log"]}
\* sink descriptors (one of them without a type)
FirstSinks ==
    {[file_path |-> "out.json"]}
    \cup {[type |-> t] : t \in {"print", "file", "csv"}}
    \cup {[type |-> t, file_path |-> p] :
            t \in {"print", "file", "csv"}, p \in {"", "out.json"}}
LaterSinks == {[type |-> "file", file_path |-> "other.json"]}

\* the lists of at most MaxEntries descriptors
Lists(first, later) ==
    {<<>>} \cup
    {<<h>> \o t : h \in first,
                  t \in UNION {[1..n -> later] : n \in 0..(MaxEntries - 1)}}

TaskFiles ==
    {[task |-> t, source |-> so, sink |-> si] :
        t \in TaskSections,
        so \in Lists(FirstSources, LaterSources),
        si \in Lists(FirstSinks, LaterSinks)}

\* the task files that differ from tf at most after the first source and
\* after the first sink
SameButLater(tf) ==
    {t2 \in TaskFiles :
        /\ t2.task = tf.task
        /\ (Len(t2.source) = 0) = (Len(tf.source) = 0)
        /\ (Len(t2.sink) = 0) = (Len(tf.sink) = 0)
        /\ Len(tf.source) > 0 => t2.source[1] = tf.source[1]
        /\ Len(tf.sink) > 0 => t2.sink[1] = tf.sink[1]}

\* what calculate_node_tree can return: a dict from date to bunch, in
\* insertion order, of at most MaxBunches days
BunchDates == {Date(2020, 1, 1), Date(2020, 1, 2), Date(2019, 12, 31)}
Bunches == {"bunch_a", "bunch_b"}
BunchMaps ==
    {bm \in UNION {[1..n -> [date : BunchDates, bunch : Bunches]] : n \in 0..MaxBunches} :
        \A i, j \in DOMAIN bm : i # j => bm[i].date # bm[j].date}

(* ------------------------------- state -------------------------------- *)
VARIABLES
    cmd,         \* the command run: "database" or "file"
    argv,        \* its options and arguments
    task_file,   \* the content of the task file (file command)
    pc,          \* the statement about to run
    outcome,     \* "running", "ok" or the exception that ended the run
    loc,         \* the locals of the command function
    frame,       \* the call of a pipeline function: its arguments and locals
    sessions,    \* the sessions create_spark_session has returned
    stop_calls,  \* the stop() calls made
    calls,       \* the collaborator calls made so far, in order
    sink,        \* the locals of _sink_result
    traversed,   \* the bunches given to pre_order_travel, in order
    opened,      \* the paths opened for writing, in order
    written,     \* the JSON documents dumped: <<path, object>>
    run,         \* 1, or 2 for the re-run on a task file that differs later
    saved        \* what the first run did, kept for the second

vars == <<cmd, argv, task_file, pc, outcome, loc, frame, sessions, stop_calls,
          calls, sink, traversed, opened, written, run, saved>>

Unbound == [kind |-> "unbound"]
NoTaskFile == [kind |-> "none"]
NoFrame == [fn |-> "none"]
NoSink == [called |-> FALSE]
NothingSaved == [kind |-> "none"]

\* the locals of a command before its first statement (parameters bound)
InitialLocals(a) ==
    [config |-> Unbound, task |-> Unbound,
     owner |-> IF "owner" \in DOMAIN a THEN a.owner ELSE Unbound,
     repo |-> IF "repo" \in DOMAIN a THEN a.repo ELSE Unbound,
     repo_type |-> IF "repo_type" \in DOMAIN a THEN a.repo_type ELSE Unbound,
     begin_date |-> IF "begin_date" \in DOMAIN a THEN a.begin_date ELSE Unbound,
     end_date |-> IF "end_date" \in DOMAIN a THEN a.end_date ELSE Unbound,
     log_file |-> Unbound, current_sink_config |-> Unbound,
     output_type |-> IF "output_type" \in DOMAIN a THEN a.output_type ELSE Unbound,
     output_file |-> IF "output_file" \in DOMAIN a THEN a.output_file ELSE Unbound,
     bunch_map |-> Unbound]

\* a fresh process about to run command c with arguments a
Start(c, a, tf) ==
    /\ cmd = c
    /\ argv = a
    /\ task_file = tf
    /\ pc = (IF c = "database" THEN "database" ELSE "cli_file")
    /\ outcome = "running"
    /\ loc = InitialLocals(a)
    /\ frame = NoFrame
    /\ sessions = 0
    /\ stop_calls = 0
    /\ calls = <<>>
    /\ sink = NoSink
    /\ traversed = <<>>
    /\ opened = <<>>
    /\ written = <<>>

Init ==
    /\ run = 1
    /\ saved = NothingSaved
    /\ \/ \E a \in DatabaseArgs : Start("database", a, NoTaskFile)
       \/ \E a \in FileArgs, tf \in TaskFiles : Start("file", a, tf)

(* ------------------------------ helpers ------------------------------- *)
\* the state of the session at the moment of a call
SessionState ==
    IF sessions = 0 THEN "none"
    ELSE IF stop_calls < sessions THEN "active" ELSE "released"

\* what the log holds for a call that raised
Raised == [kind |-> "raised"]

\* a call of function fn with (first) argument arg, appended to the log
\* with what it returned
Called(fn, arg, returned) ==
    calls' = Append(calls, [fn |-> fn, arg |-> arg, session |-> SessionState,
                            returned |-> returned])

\* an exception nothing catches ends the run
Raise(exception) ==
    /\ pc' = "done"
    /\ outcome' = exception

Return ==
    /\ pc' = "done"
    /\ outcome' = "ok"

\* whether a collaborator call returns (TRUE) or raises (FALSE)
CollaboratorReturns == BOOLEAN

\* `if d: d = datetime.datetime.strptime(d, "%Y-%m-%d")`
ParseIfSet(v) ==
    IF Truthy(v) THEN Strptime(v.s) ELSE [ok |-> TRUE, value |-> v]

\* the two date statements of a command, then the statement at `next`
ParseDates(next) ==
    LET b == ParseIfSet(loc.begin_date)
        e == ParseIfSet(loc.end_date)
    IN IF ~b.ok
       THEN /\ Raise("ValueError")
            /\ UNCHANGED loc
       ELSE IF ~e.ok
       THEN /\ Raise("ValueError")
            /\ loc' = [loc EXCEPT !.begin_date = b.value]
       ELSE /\ loc' = [loc EXCEPT !.begin_date = b.value, !.end_date = e.value]
            /\ pc' = next
            /\ UNCHANGED outcome

\* config = load_config(config_file), then the statement at `next`
LoadConfig(next) ==
    LET config == [kind |-> "config", path |-> argv.config_file]
    IN \E returns \in CollaboratorReturns :
        IF returns
        THEN /\ Called("load_config", argv.config_file, config)
             /\ loc' = [loc EXCEPT !.config = config]
             /\ pc' = next
             /\ UNCHANGED outcome
        ELSE /\ Called("load_config", argv.config_file, Raised)
             /\ Raise("ConfigError")
             /\ UNCHANGED loc

(* ------------------------- pipeline functions ------------------------- *)
\* the call of pipeline function fn: its parameters are bound, then
\* spark = create_spark_session(config)
CreateSession(fn, log_file, next) ==
    LET args == [config |-> loc.config, log_file |-> log_file, owner |-> loc.owner,
                 repo |-> loc.repo, begin_date |-> loc.begin_date,
                 end_date |-> loc.end_date, repo_type |-> loc.repo_type]
        bound == [fn |-> fn, args |-> args, spark |-> Unbound,
                  record_rdd |-> Unbound, bunch_map |-> Unbound]
        spark == [kind |-> "session", id |-> sessions + 1]
    IN \E returns \in CollaboratorReturns :
           IF returns
           THEN /\ Called("create_spark_session", loc.config, spark)
                /\ sessions' = sessions + 1
                /\ frame' = [bound EXCEPT !.spark = spark]
                /\ pc' = next
                /\ UNCHANGED outcome
           ELSE /\ Called("create_spark_session", loc.config, Raised)
                /\ Raise("SessionError")
                /\ frame' = bound
                /\ UNCHANGED sessions

\* record_rdd = load_records_from_...(config, ..., spark, owner=..., ...)
LoadRecords(loader, next) ==
    LET record_rdd == [kind |-> "rdd", loader |-> loader, spark |-> frame.spark,
                       scope |-> frame.args]
    IN \E returns \in CollaboratorReturns :
        IF returns
        THEN /\ Called(loader, frame.args.log_file, record_rdd)
             /\ frame' = [frame EXCEPT !.record_rdd = record_rdd]
             /\ pc' = next
             /\ UNCHANGED outcome
        ELSE /\ Called(loader, frame.args.log_file, Raised)
             /\ Raise("LoadError")
             /\ UNCHANGED frame

\* bunch_map = calculate_node_tree(config, record_rdd, spark, repo_type=...)
CalculateNodeTree(next) ==
    \/ \E bm \in BunchMaps :
         LET bunch_map == [kind |-> "dict", items |-> bm]
         IN /\ Called("calculate_node_tree", frame.record_rdd, bunch_map)
            /\ frame' = [frame EXCEPT !.bunch_map = bunch_map]
            /\ pc' = next
            /\ UNCHANGED outcome
    \/ /\ Called("calculate_node_tree", frame.record_rdd, Raised)
       /\ Raise("CalculateError")
       /\ UNCHANGED frame

\* a variant of StopAndReturn that releases the session a second time
StopAndReturn_StopsTwice(next) ==
    /\ calls' = calls \o <<[fn |-> "stop", arg |-> frame.spark, session |-> "active",
                             returned |-> None],
                           [fn |-> "stop", arg |-> frame.spark, session |-> "released",
                             returned |-> None]>>
    /\ stop_calls' = stop_calls + 2
    /\ loc' = [loc EXCEPT !.bunch_map = frame.bunch_map]
    /\ pc' = next

\* spark.stop(), the timing log line, and `return bunch_map` to the command
StopAndReturn(next) ==
    /\ Called("stop", frame.spark, None)
    /\ stop_calls' = stop_calls + 1
    /\ loc' = [loc EXCEPT !.bunch_map = frame.bunch_map]
    /\ pc' = next

(* ------------------------- command: database -------------------------- *)
DatabaseParseDates ==
    /\ pc = "database"
    /\ ParseDates("database_load_config")
    /\ UNCHANGED <<cmd, argv, task_file, frame, sessions, stop_calls, calls, sink,
                   traversed, opened, written, run, saved>>

DatabaseLoadConfig ==
    /\ pc = "database_load_config"
    /\ LoadConfig("generate_node_tree_from_database")
    /\ UNCHANGED <<cmd, argv, task_file, frame, sessions, stop_calls, sink,
                   traversed, opened, written, run, saved>>

DatabaseCreateSession ==
    /\ pc = "generate_node_tree_from_database"
    /\ CreateSession("generate_node_tree_from_database", None, "database_load_records")
    /\ UNCHANGED <<cmd, argv, task_file, loc, stop_calls, sink, traversed, opened,
                   written, run, saved>>

\* a variant of DatabaseLoadRecords with the load in try/finally: the
\* session is stopped when the load raises
DatabaseLoadRecords_Finally ==
    /\ pc = "database_load_records"
    /\ \/ /\ LoadRecords("load_records_from_rmdb", "database_calculate")
          /\ outcome' = "running"
          /\ UNCHANGED stop_calls
       \/ /\ calls' = calls \o <<[fn |-> "load_records_from_rmdb", arg |-> None,
                                  session |-> "active", returned |-> Raised],
                                 [fn |-> "stop", arg |-> frame.spark,
                                  session |-> "active", returned |-> None]>>
          /\ stop_calls' = stop_calls + 1
          /\ Raise("LoadError")
          /\ UNCHANGED frame
    /\ UNCHANGED <<cmd, argv, task_file, loc, sessions, sink, traversed,
                   opened, written, run, saved>>

DatabaseLoadRecords ==
    /\ pc = "database_load_records"
    /\ LoadRecords("load_records_from_rmdb", "database_calculate")
    /\ UNCHANGED <<cmd, argv, task_file, loc, sessions, stop_calls, sink, traversed,
                   opened, written, run, saved>>

DatabaseCalculate ==
    /\ pc = "database_calculate"
    /\ CalculateNodeTree("database_stop")
    /\ UNCHANGED <<cmd, argv, task_file, loc, sessions, stop_calls, sink, traversed,
                   opened, written, run, saved>>

\* a variant of DatabaseStop that returns without spark.stop()
DatabaseStop_Leaks ==
    /\ pc = "database_stop"
    /\ loc' = [loc EXCEPT !.bunch_map = frame.bunch_map]
    /\ pc' = "_sink_result"
    /\ UNCHANGED <<cmd, argv, task_file, outcome, frame, sessions, stop_calls, calls,
                   sink, traversed, opened, written, run, saved>>

DatabaseStop ==
    /\ pc = "database_stop"
    /\ StopAndReturn("_sink_result")
    /\ UNCHANGED <<cmd, argv, task_file, outcome, frame, sessions, sink, traversed,
                   opened, written, run, saved>>

(* --------------------------- command: file ---------------------------- *)
CliFileLoadConfig ==
    /\ pc = "cli_file"
    /\ LoadConfig("cli_file_load_task")
    /\ UNCHANGED <<cmd, argv, task_file, frame, sessions, stop_calls, sink,
                   traversed, opened, written, run, saved>>

\* task = load_config(task_file)
CliFileLoadTask ==
    /\ pc = "cli_file_load_task"
    /\ \E returns \in CollaboratorReturns :
        IF returns
        THEN /\ Called("load_config", argv.task_file, task_file)
             /\ loc' = [loc EXCEPT !.task = task_file]
             /\ pc' = "cli_file_read_task"
             /\ UNCHANGED outcome
        ELSE /\ Called("load_config", argv.task_file, Raised)
             /\ Raise("ConfigError")
             /\ UNCHANGED loc
    /\ UNCHANGED <<cmd, argv, task_file, frame, sessions, stop_calls, sink,
                   traversed, opened, written, run, saved>>

\* a variant of CurrentConfig that takes the last descriptor: configs[-1]
CurrentConfig_Last(configs) == configs[Len(configs)]

\* source_config[0] and sink_config[0]
CurrentConfig(configs) == configs[1]

\* the locals read from the task: task["task"] ... current_sink_config["type"]
TaskLocals(task) ==
    LET task_config == task.task
        current_source_config == CurrentConfig(task.source)
        current_sink_config == CurrentConfig(task.sink)
    IN [loc EXCEPT
            !.owner = Get(task_config, "owner", None),
            !.repo = Get(task_config, "repo", None),
            !.begin_date = Get(task_config, "begin_date", None),
            !.end_date = Get(task_config, "end_date", None),
            !.repo_type = Get(task_config, "workflow_type", Str("ecflow")),
            !.log_file = Str(current_source_config.file_path),
            !.current_sink_config = current_sink_config,
            !.output_type = Str(current_sink_config.type)]

CliFileReadTask ==
    /\ pc = "cli_file_read_task"
    /\ IF Len(loc.task.source) = 0
       THEN Raise("IndexError") /\ UNCHANGED loc
       ELSE IF "file_path" \notin DOMAIN CurrentConfig(loc.task.source)
       THEN Raise("KeyError") /\ UNCHANGED loc
       ELSE IF Len(loc.task.sink) = 0
       THEN Raise("IndexError") /\ UNCHANGED loc
       ELSE IF "type" \notin DOMAIN CurrentConfig(loc.task.sink)
       THEN Raise("KeyError") /\ UNCHANGED loc
       ELSE /\ loc' = TaskLocals(loc.task)
            /\ pc' = "cli_file_parse_dates"
            /\ UNCHANGED outcome
    /\ UNCHANGED <<cmd, argv, task_file, frame, sessions, stop_calls, calls, sink,
                   traversed, opened, written, run, saved>>

CliFileParseDates ==
    /\ pc = "cli_file_parse_dates"
    /\ ParseDates("cli_file_output_file")
    /\ UNCHANGED <<cmd, argv, task_file, frame, sessions, stop_calls, calls, sink,
                   traversed, opened, written, run, saved>>

\* a variant of OutputFileMissing that forgets the empty string
OutputFileMissing_OnlyNone(output_file) == output_file.kind = "None"

\* `output_file is None or output_file == ""`
OutputFileMissing(output_file) ==
    output_file.kind = "None" \/ output_file.s = ""

\* output_file = None; if output_type == "file": ... raise BadArgumentUsage
CliFileOutputFile ==
    /\ pc = "cli_file_output_file"
    /\ IF loc.output_type = Str("file")
       THEN LET output_file == Get(loc.current_sink_config, "file_path", None)
            IN /\ loc' = [loc EXCEPT !.output_file = output_file]
               /\ IF OutputFileMissing(output_file)
                  THEN Raise("BadArgumentUsage")
                  ELSE pc' = "generate_node_tree_from_file" /\ UNCHANGED outcome
       ELSE /\ loc' = [loc EXCEPT !.output_file = None]
            /\ pc' = "generate_node_tree_from_file"
            /\ UNCHANGED outcome
    /\ UNCHANGED <<cmd, argv, task_file, frame, sessions, stop_calls, calls, sink,
                   traversed, opened, written, run, saved>>

CliFileCreateSession ==
    /\ pc = "generate_node_tree_from_file"
    /\ CreateSession("generate_node_tree_from_file", loc.log_file, "file_load_records")
    /\ UNCHANGED <<cmd, argv, task_file, loc, stop_calls, sink, traversed, opened,
                   written, run, saved>>

CliFileLoadRecords ==
    /\ pc = "file_load_records"
    /\ LoadRecords("load_records_from_file", "file_calculate")
    /\ UNCHANGED <<cmd, argv, task_file, loc, sessions, stop_calls, sink, traversed,
                   opened, written, run, saved>>

CliFileCalculate ==
    /\ pc = "file_calculate"
    /\ CalculateNodeTree("file_stop")
    /\ UNCHANGED <<cmd, argv, task_file, loc, sessions, stop_calls, sink, traversed,
                   opened, written, run, saved>>

CliFileStop ==
    /\ pc = "file_stop"
    /\ StopAndReturn("_sink_result")
    /\ UNCHANGED <<cmd, argv, task_file, outcome, frame, sessions, sink, traversed,
                   opened, written, run, saved>>

(* ---------------------------- _sink_result ---------------------------- *)
\* a variant of SinkBranch whose second branch is a plain `else`
SinkBranch_ElseFile(output_type) ==
    IF output_type = Str("print") THEN "sink_print" ELSE "sink_open"

\* the branch _sink_result takes for an output type
SinkBranch(output_type) ==
    IF output_type = Str("print") THEN "sink_print"
    ELSE IF output_type = Str("file") THEN "sink_open"
    ELSE "sink_return"

\* _sink_result(output_type, bunch_map, output_file=output_file) is called
SinkResult ==
    /\ pc = "_sink_result"
    /\ Called("_sink_result", loc.output_type, None)
    /\ sink' = [called |-> TRUE, output_type |-> loc.output_type,
                bunch_map |-> loc.bunch_map, output_file |-> loc.output_file,
                next |-> 1, result |-> <<>>]
    /\ pc' = SinkBranch(loc.output_type)
    /\ UNCHANGED <<cmd, argv, task_file, outcome, loc, frame, sessions, stop_calls,
                   traversed, opened, written, run, saved>>

\* a variant of SinkPrintBunch that passes over every second bunch
SinkPrintBunch_SkipsNext ==
    /\ pc = "sink_print"
    /\ sink.next <= Len(sink.bunch_map.items)
    /\ traversed' = Append(traversed, sink.bunch_map.items[sink.next].bunch)
    /\ sink' = [sink EXCEPT !.next = @ + 2]
    /\ UNCHANGED <<cmd, argv, task_file, pc, outcome, loc, frame, sessions,
                   stop_calls, calls, opened, written, run, saved>>

\* one turn of `for date, bunch in bunch_map.items(): pre_order_travel(...)`
SinkPrintBunch ==
    /\ pc = "sink_print"
    /\ sink.next <= Len(sink.bunch_map.items)
    /\ traversed' = Append(traversed, sink.bunch_map.items[sink.next].bunch)
    /\ sink' = [sink EXCEPT !.next = @ + 1]
    /\ UNCHANGED <<cmd, argv, task_file, pc, outcome, loc, frame, sessions,
                   stop_calls, calls, opened, written, run, saved>>

\* open(output_file, "w"): TypeError for None, an OSError for "" or when
\* the file cannot be created
SinkOpen ==
    /\ pc = "sink_open"
    /\ IF sink.output_file.kind = "None"
       THEN Raise("TypeError") /\ UNCHANGED opened
       ELSE IF sink.output_file.s = ""
       THEN Raise("OSError") /\ UNCHANGED opened
       ELSE \E returns \in CollaboratorReturns :
               IF returns
               THEN /\ opened' = Append(opened, sink.output_file.s)
                    /\ pc' = "sink_file"
                    /\ UNCHANGED outcome
               ELSE Raise("OSError") /\ UNCHANGED opened
    /\ UNCHANGED <<cmd, argv, task_file, loc, frame, sessions, stop_calls, calls,
                   sink, traversed, written, run, saved>>

\* result[date.strftime("%Y-%m-%d")] = bunch.to_dict()
AddToResult(result, item) ==
    DictSet(result, Strftime(item.date), ToDict(item.bunch))

\* one turn of the loop that fills result
SinkFileBunch ==
    /\ pc = "sink_file"
    /\ sink.next <= Len(sink.bunch_map.items)
    /\ sink' = [sink EXCEPT
                  !.result = AddToResult(@, sink.bunch_map.items[sink.next]),
                  !.next = @ + 1]
    /\ UNCHANGED <<cmd, argv, task_file, pc, outcome, loc, frame, sessions,
                   stop_calls, calls, traversed, opened, written, run, saved>>

\* json.dump(result, f), the file is closed, _sink_result returns
SinkDump ==
    /\ pc = "sink_file"
    /\ sink.next > Len(sink.bunch_map.items)
    /\ written' = Append(written, [path |-> sink.output_file.s, json |-> sink.result])
    /\ Return
    /\ UNCHANGED <<cmd, argv, task_file, loc, frame, sessions, stop_calls, calls,
                   sink, traversed, opened, run, saved>>

\* _sink_result returns: the print loop is over, or no branch was taken
SinkReturn ==
    /\ \/ pc = "sink_print" /\ sink.next > Len(sink.bunch_map.items)
       \/ pc = "sink_return"
    /\ Return
    /\ UNCHANGED <<cmd, argv, task_file, loc, frame, sessions, stop_calls, calls,
                   sink, traversed, opened, written, run, saved>>

(* ------------------------------ the runs ------------------------------ *)
DatabaseNext ==
    \/ DatabaseParseDates
    \/ DatabaseLoadConfig
    \/ DatabaseCreateSession
    \/ DatabaseLoadRecords
    \/ DatabaseCalculate
    \/ DatabaseStop

CliFileNext ==
    \/ CliFileLoadConfig
    \/ CliFileLoadTask
    \/ CliFileReadTask
    \/ CliFileParseDates
    \/ CliFileOutputFile
    \/ CliFileCreateSession
    \/ CliFileLoadRecords
    \/ CliFileCalculate
    \/ CliFileStop

SinkNext ==
    \/ SinkResult
    \/ SinkPrintBunch
    \/ SinkOpen
    \/ SinkFileBunch
    \/ SinkDump
    \/ SinkReturn

Next == DatabaseNext \/ CliFileNext \/ SinkNext

Spec == Init /\ [][Next]_vars

(* ------------- two runs on task files that differ later --------------- *)
\* the call of a pipeline function a run made, if any
PipelineCall ==
    IF frame.fn = "none" THEN NoFrame ELSE [fn |-> frame.fn, args |-> frame.args]

\* the call of _sink_result a run made, if any
SinkCall ==
    IF sink.called
    THEN [called |-> TRUE, output_type |-> sink.output_type,
          output_file |-> sink.output_file]
    ELSE NoSink

\* the exceptions of collaborators, which no input of the command decides
CollaboratorErrors ==
    {"ConfigError", "SessionError", "LoadError", "CalculateError", "OSError"}

\* what of a finished run its command line and task file decide
Observation ==
    [pipeline |-> PipelineCall, sink |-> SinkCall, outcome |-> outcome]

\* the file command is run once more, on a task file that differs from the
\* first one only after the first source and after the first sink
SecondRun ==
    /\ pc = "done"
    /\ run = 1
    /\ cmd = "file"
    /\ \E tf \in SameButLater(task_file) \ {task_file} : task_file' = tf
    /\ run' = 2
    /\ saved' = Observation
    /\ pc' = "cli_file"
    /\ outcome' = "running"
    /\ loc' = InitialLocals(argv)
    /\ frame' = NoFrame
    /\ sessions' = 0
    /\ stop_calls' = 0
    /\ calls' = <<>>
    /\ sink' = NoSink
    /\ traversed' = <<>>
    /\ opened' = <<>>
    /\ written' = <<>>
    /\ UNCHANGED <<cmd, argv>>

\* the task sections of the two-run check: no date, a date, a bad date
PairTaskSections ==
    {t \in TaskSections :
        /\ "end_date" \notin DOMAIN t
        /\ "begin_date" \in DOMAIN t => t.begin_date \in {Chars_2020_01_01, Chars_2020_02_30}}

InitPair ==
    /\ run = 1
    /\ saved = NothingSaved
    /\ \E a \in FileArgs, tf \in TaskFiles :
        /\ tf.task \in PairTaskSections
        /\ Start("file", a, tf)

NextPair == CliFileNext \/ SinkNext \/ SecondRun

SpecPair == InitPair /\ [][NextPair]_vars

(* ------------------------------ claims -------------------------------- *)
Finished == pc = "done"
CallsOf(fn) == {i \in DOMAIN calls : calls[i].fn = fn}
CallNames == [i \in DOMAIN calls |-> calls[i].fn]
Loaders == {"load_records_from_rmdb", "load_records_from_file"}
LoaderCalls == {i \in DOMAIN calls : calls[i].fn \in Loaders}
NothingSunk == traversed = <<>> /\ opened = <<>> /\ written = <<>>

\* the calculator has returned: the session was created, the records were
\* loaded and the trees were calculated
CalculatorReturned ==
    \E i \in CallsOf("calculate_node_tree") : calls[i].returned # Raised
CalculatorResult ==
    calls[CHOOSE i \in CallsOf("calculate_node_tree") : TRUE].returned
CreatedSession ==
    calls[CHOOSE i \in CallsOf("create_spark_session") : TRUE].returned

\* C1: in both pipeline functions, once session creation, record loading and
\* tree calculation have succeeded, stop() is called exactly once, on the
\* session that was created (no call before the stop statement, one call
\* ever after), and the function returns the bunch map the calculator gave.
C1_StopExactlyOnce ==
    CalculatorReturned =>
        IF pc \in {"database_stop", "file_stop"}
        THEN stop_calls = 0 /\ CallsOf("stop") = {}
        ELSE /\ stop_calls = 1
             /\ Cardinality(CallsOf("stop")) = 1
             /\ \A i \in CallsOf("stop") : calls[i].arg = CreatedSession
             /\ loc.bunch_map = CalculatorResult

C1_Witness ==
    /\ cmd = "database"
    /\ Finished
    /\ outcome = "ok"
    /\ stop_calls = 1
    /\ Len(loc.bunch_map.items) = 2

\* the steps of a successful run, by command; the file command reads its
\* task descriptor with load_config too, right after the configuration
ExpectedSteps ==
    IF cmd = "database"
    THEN <<"load_config", "create_spark_session", "load_records_from_rmdb",
           "calculate_node_tree", "stop", "_sink_result">>
    ELSE <<"load_config", "load_config", "create_spark_session",
           "load_records_from_file", "calculate_node_tree", "stop", "_sink_result">>

\* C2: a successful run of either command loads the configuration, acquires
\* a session, loads the records, calculates the trees, releases the session
\* and sinks the result, in this order and once each; at most one session
\* is ever created, records are loaded and trees calculated only while it
\* is acquired and not released, and the sink is called only after release.
C2_StepsInOrder ==
    /\ sessions <= 1
    /\ \A i \in DOMAIN calls :
        /\ calls[i].fn \in {"load_config", "create_spark_session"}
              => calls[i].session = "none"
        /\ calls[i].fn \in Loaders \cup {"calculate_node_tree", "stop"}
              => calls[i].session = "active"
        /\ calls[i].fn = "_sink_result" => calls[i].session = "released"
    /\ (Finished /\ outcome = "ok") =>
        /\ CallNames = ExpectedSteps
        /\ calls[1].arg = argv.config_file
        /\ cmd = "file" => calls[2].arg = argv.task_file
        /\ sessions = 1

C2_Witness ==
    /\ cmd = "file"
    /\ Finished
    /\ outcome = "ok"
    /\ written # <<>>

\* the file command has read its task descriptor (lines 68-84)
TaskRead == cmd = "file" /\ loc.current_sink_config # Unbound

\* the first sink descriptor has type "file" and no or an empty file_path
SinkFileWithoutPath ==
    /\ TaskRead
    /\ loc.current_sink_config.type = "file"
    /\ \/ "file_path" \notin DOMAIN loc.current_sink_config
       \/ loc.current_sink_config.file_path = ""

\* strptime rejects the date the task section gives under key
DateRejected(key) ==
    /\ key \in DOMAIN task_file.task
    /\ task_file.task[key] # <<>>
    /\ ~Strptime(task_file.task[key]).ok

NoPipeline ==
    /\ frame.fn = "none"
    /\ sessions = 0
    /\ \A i \in DOMAIN calls : calls[i].fn = "load_config"
    /\ ~sink.called
    /\ NothingSunk

NoOutputFileSupplied ==
    IF cmd = "database"
    THEN argv.output_type = Str("file") /\ argv.output_file = None
    ELSE SinkFileWithoutPath

\* C4: in either command, when the output type is file and no output file
\* path has been supplied, the run ends in a bad-usage failure (stated here
\* for the runs that no date error and no collaborator error ends first).
C4_BadUsage ==
    (Finished /\ NoOutputFileSupplied
              /\ outcome \notin {"ValueError"} \cup CollaboratorErrors) =>
        outcome = "BadArgumentUsage"

\* the begin or end date as the user gave it
GivenDate(key) ==
    IF cmd = "database" THEN argv[key] ELSE Get(task_file.task, key, None)

\* C5: in both commands, a begin or end date string that parses reaches the
\* pipeline as that date at midnight; any other string, the empty string
\* included, fails to parse and aborts the run: no session is acquired and
\* no pipeline function is invoked.
C5_DatesParsedOrAborted ==
    \A key \in {"begin_date", "end_date"} :
        LET v == GivenDate(key)
        IN v.kind = "str" =>
            IF Strptime(v.s).ok
            THEN frame.fn # "none" =>
                    /\ frame.args[key] = Strptime(v.s).value
                    /\ frame.args[key].hour = 0
                    /\ frame.args[key].minute = 0
                    /\ frame.args[key].second = 0
            ELSE /\ frame.fn = "none"
                 /\ sessions = 0
                 /\ Finished => outcome # "ok"

\* key is the date written as YYYY-MM-DD
IsFormatOf(key, date) ==
    /\ Len(key) = 10
    /\ \A i \in {1, 2, 3, 4, 6, 7, 9, 10} : IsDigit(key[i])
    /\ key[5] = "-"
    /\ key[8] = "-"
    /\ YearVal(key) = date.year
    /\ 10 * DigitVal(key[6]) + DigitVal(key[7]) = date.month
    /\ 10 * DigitVal(key[9]) + DigitVal(key[10]) = date.day

\* C6: with output type file, the one JSON object written has exactly one
\* key per entry of the bunch map passed to the sink, the entry's date as
\* YYYY-MM-DD, whose value is the entry's bunch as to_dict() gives it: no
\* key is extra and no entry is missing.
C6_JsonKeyedByDate ==
    /\ Len(written) <= 1
    /\ \A w \in DOMAIN written :
        LET items == CalculatorResult.items
            json == written[w].json
        IN /\ sink.output_type = Str("file")
           /\ sink.bunch_map = CalculatorResult
           /\ written[w].path = sink.output_file.s
           /\ opened = <<written[w].path>>
           /\ Cardinality(DOMAIN json) = Len(items)
           /\ \A i \in DOMAIN items :
                \E k \in DOMAIN json :
                    IsFormatOf(k, items[i].date) /\ json[k] = ToDict(items[i].bunch)
           /\ \A k \in DOMAIN json :
                \E i \in DOMAIN items : IsFormatOf(k, items[i].date)

C6_Witness ==
    /\ written # <<>>
    /\ Cardinality(DOMAIN written[1].json) = 2
    /\ \E k \in DOMAIN written[1].json : written[1].json[k] = ToDict("bunch_b")

\* C7: with output type print, the bunches of the map are traversed in the
\* map's order, each once: at every moment those before the next one have
\* been traversed, at the end all of them, and no file is opened or written.
C7_PrintTraversesEachOnce ==
    (sink.called /\ sink.output_type = Str("print")) =>
        LET items == CalculatorResult.items
        IN /\ sink.bunch_map = CalculatorResult
           /\ opened = <<>>
           /\ written = <<>>
           /\ sink.next <= Len(items) + 1
           /\ traversed = [i \in 1..(sink.next - 1) |-> items[i].bunch]
           /\ Finished => Len(traversed) = Len(items)

C7_Witness ==
    /\ Finished
    /\ outcome = "ok"
    /\ sink.called
    /\ sink.output_type = Str("print")
    /\ traversed = <<"bunch_b", "bunch_a">>

\* C8: in both pipeline functions, when record loading or tree calculation
\* raises after the session was acquired, the run ends there in failure:
\* stop() is never called and the session stays unreleased, the failed call
\* is not made again, and the sink is never invoked.
C8_FailureLeavesSessionUnreleased ==
    outcome \in {"LoadError", "CalculateError"} =>
        /\ Finished
        /\ sessions = 1
        /\ stop_calls = 0
        /\ CallsOf("stop") = {}
        /\ calls[Len(calls)].returned = Raised
        /\ calls[Len(calls)].session = "active"
        /\ Cardinality(CallsOf("create_spark_session")) = 1
        /\ Cardinality(LoaderCalls) = 1
        /\ Cardinality(CallsOf("calculate_node_tree")) <= 1
        /\ CallsOf("_sink_result") = {}
        /\ ~sink.called
        /\ loc.bunch_map = Unbound
        /\ NothingSunk

C8_Witness ==
    /\ cmd = "database"
    /\ outcome = "CalculateError"
    /\ sessions = 1
    /\ stop_calls = 0

\* C9: two runs of the file command whose task files differ only after the
\* first source and after the first sink call the pipeline function with the
\* same log file and parameters, call the sink with the same output type and
\* output file, and, collaborator failures aside, end the same way.
C9_LaterEntriesIgnored ==
    run = 2 =>
        /\ (frame.fn # "none" /\ saved.pipeline # NoFrame)
              => PipelineCall = saved.pipeline
        /\ (sink.called /\ saved.sink # NoSink) => SinkCall = saved.sink
        /\ (Finished /\ outcome \notin CollaboratorErrors
                     /\ saved.outcome \notin CollaboratorErrors)
              => outcome = saved.outcome

C9_Witness ==
    /\ run = 2
    /\ Finished
    /\ outcome = "ok"
    /\ saved.outcome = "ok"
    /\ Len(task_file.source) > 1
    /\ Len(task_file.sink) > 1
    /\ written # <<>>

\* the sink type read from the task file is neither "print" nor "file"
UnknownSinkType ==
    /\ TaskRead
    /\ loc.output_type \notin {Str("print"), Str("file")}

\* C10: in the file command a sink type that is neither "print" nor "file"
\* is not rejected: unless a date fails to parse or a collaborator raises,
\* the run acquires a session, loads, calculates and releases the session;
\* the sink then does nothing and the run ends without error.
C10_UnknownSinkTypeIgnored ==
    UnknownSinkType =>
        /\ NothingSunk
        /\ outcome \notin {"BadArgumentUsage", "TypeError", "OSError"}
        /\ sink.called => pc \in {"sink_return", "done"} /\ stop_calls = 1
        /\ Finished =>
            \/ outcome = "ValueError" /\ frame.fn = "none"
            \/ outcome \in CollaboratorErrors /\ ~sink.called
            \/ /\ outcome = "ok"
               /\ sink.called
               /\ CallNames = ExpectedSteps
               /\ sessions = 1
               /\ stop_calls = 1

C10_Witness ==
    /\ UnknownSinkType
    /\ Finished
    /\ outcome = "ok"
    /\ Len(loc.bunch_map.items) = 2
    /\ stop_calls = 1
====
